---- MODULE Spec2Model ----
(***************************************************************************)
(* Client-side collection cache (useApiCollection) and streaming reply     *)
(* synchronisation (Chat.callReply) of the chat client.                    *)
(*                                                                         *)
(* The specifications:                                                     *)
(*   SpecColl     the collection hook on one cache key, driven by          *)
(*                arbitrary sequences of reconciliations;                  *)
(*   Spec         the Chat page: handleSendMessage, handleUpdateMessage    *)
(*                and callReply, interleaved with refetches of the list;   *)
(*   SpecQuery    useApiQuery on the message list, key by key;             *)
(*   SpecPage     the Chat page with its conversation collection, a reply  *)
(*                streaming while the user navigates;                      *)
(*   SpecApi      the transport adapter useApi and the session token;      *)
(*   SpecSidebar  the search filter of the conversation list;              *)
(*   SpecAuth     login, signup, logout and reload of the session token;   *)
(*   SpecRace     updateItem and removeItem in flight on one identifier;   *)
(*   SpecComposer the composer of ChatWindow and the send in flight;       *)
(*   SpecEdit     handleUpdateMessage while the cached list is replaced;   *)
(*   SpecDelete   conversation deletions in flight, with their closures.   *)
(***************************************************************************)
EXTENDS Integers, Sequences, FiniteSets, TLC

VARIABLES
    cache,              \* query cache: conversation id -> cached Message[]
    refetch,            \* state of the message query's fetch: idle / sent / served
    snapshot,           \* the list a served fetch carries back
    adding,             \* addMutation.isPending
    updating,           \* id of the PATCH in flight, 0 when updateMutation is not pending
    removing,           \* id of the DELETE in flight, 0 when removeMutation is not pending
    server,             \* the remote service's message list per conversation
    replyStored,        \* id of the reply the service has stored for this request, 0 if none
    response,           \* entity carried by the HTTP response in flight
    resOk,              \* res.ok of the reply response
    currentConversationId,
    selectedModel,
    convKey,            \* conversation id captured by the running handler's closure
    pc,                 \* position of the running handler
    flow,               \* which handler runs: none / send / edit
    editId,             \* handleUpdateMessage: id
    toRemove,           \* handleUpdateMessage: remaining ids of toRemove
    assistantContent,   \* callReply: accumulating buffer
    assistantTmpId,     \* callReply: temporary placeholder id
    nread,              \* chunks read so far from the reply body
    now,                \* Date.now(), advancing with every handler
    nextId,             \* next identifier the service assigns
    replyPosts,         \* POSTs to /conversations/{id}/reply issued by the running handler
    received,           \* history: deltas received in this stream, in order
    ended,              \* history: how the reply request of this handler ended
    editPlan,           \* history: ids up to / after the edited message when the PATCH completed
    trace,              \* history: successive values of the message list in this handler
    query,              \* useQuery: state of the query of each key (status, data, fetch)
    observed,           \* useApiQuery: the key part the hook is rendered with
    token,              \* AuthContext.token
    storage,            \* localStorage: the item 'token', null when there is none
    sent,               \* what useApi handed to fetch: url and init
    searchTerm,         \* Chat.searchTerm
    mutations,          \* updateItem / removeItem: the PATCH and the DELETE in flight
    input,              \* ChatWindow.input: the text in the composer
    sends,              \* the calls of onSend whose POST is in flight, by call number
    deletions,          \* removeConversation calls in flight, each with its closure
    last                \* history: the last step taken, with the list before it

collVars == <<cache, refetch, snapshot, adding, updating, removing>>

serverVars == <<server, replyStored, response, resOk, nextId>>

pageVars == <<currentConversationId, selectedModel>>

replyVars == <<assistantContent, assistantTmpId, nread, replyPosts, received, ended>>

handlerVars == <<convKey, pc, flow, editId, toRemove, now, editPlan, trace>>

chatVars == <<serverVars, pageVars, replyVars, handlerVars>>

queryVars == <<query, observed>>

apiVars == <<token, storage, sent>>

composerVars == <<input, sends>>

extVars == <<queryVars, apiVars, searchTerm, mutations, composerVars, deletions>>

vars == <<collVars, chatVars, extVars, last>>

----------------------------------------------------------------------------
(* Bounds *)

MaxId == 3          \* identifiers used by the collection specification: 1..MaxId
MaxChunks == 2      \* chunks the service sends in one reply body
MaxFlows == 1       \* handlers run one after the other

----------------------------------------------------------------------------
(* Data *)

Ids == 1 .. MaxId

Contents == {<<"x">>, <<"y">>}

\* The sentinel text of the placeholder.
Thinking == <<"Thinking...">>

Item(id, role, content) == [id |-> id, role |-> role, content |-> content]

Items == {Item(id, "user", c) : id \in Ids, c \in Contents}

getId(item) == item.id

IdsOf(list) == {getId(list[i]) : i \in DOMAIN list}

Unique(list) == \A i, j \in DOMAIN list : getId(list[i]) = getId(list[j]) => i = j

\* Array.prototype.findIndex on the identifier: 0-based, -1 when absent.
FindIndex(old, id) ==
    IF \E i \in DOMAIN old : getId(old[i]) = id
    THEN (CHOOSE i \in DOMAIN old :
              /\ getId(old[i]) = id
              /\ \A j \in 1 .. (i - 1) : getId(old[j]) # id) - 1
    ELSE -1

Filter(old, id) == SelectSeq(old, LAMBDA i : getId(i) # id)

Replace(old, id, item) == [k \in DOMAIN old |-> IF getId(old[k]) = id THEN item ELSE old[k]]

\* Mutants of updateCollection (used to show that the properties depend on it).
UpdateCollectionAppendAlways(old, item, removeItem) ==
    IF removeItem
    THEN Filter(old, getId(item))
    ELSE Append(old, item)

UpdateCollectionSpliceMinusOne(old, item, removeItem) ==
    LET id == getId(item)
        index == FindIndex(old, id)
    IN  IF removeItem
        THEN IF index = -1
             THEN SubSeq(old, 1, Len(old) - 1)
             ELSE Filter(old, id)
        ELSE IF index = -1 THEN Append(old, item) ELSE Replace(old, id, item)

UpdateCollectionRemoveKeepsMatch(old, item, removeItem) ==
    LET id == getId(item)
        index == FindIndex(old, id)
    IN  IF removeItem
        THEN IF index = -1
             THEN old
             ELSE SubSeq(old, index + 2, Len(old))
        ELSE IF index = -1 THEN Append(old, item) ELSE Replace(old, id, item)

UpdateCollectionPrepends(old, item, removeItem) ==
    LET id == getId(item)
        index == FindIndex(old, id)
    IN  IF removeItem
        THEN IF index = -1 THEN old ELSE Filter(old, id)
        ELSE IF index = -1 THEN <<item>> \o old ELSE Replace(old, id, item)

UpdateCollectionReplaceOnly(old, item, removeItem) ==
    LET id == getId(item)
        index == FindIndex(old, id)
    IN  IF removeItem
        THEN IF index = -1 THEN old ELSE Filter(old, id)
        ELSE IF index = -1 THEN old ELSE Replace(old, id, item)

\* useApiCollection.updateCollection: the updater handed to setQueryData.
UpdateCollection(old, item, removeItem) ==
    LET id == getId(item)
        index == FindIndex(old, id)
    IN  IF removeItem
        THEN IF index = -1
             THEN old
             ELSE Filter(old, id)
        ELSE IF index = -1
             THEN Append(old, item)
             ELSE Replace(old, id, item)

----------------------------------------------------------------------------
(* The collection hook on one cache key *)

Convs == {"c1", "c2"}

\* The cache key the collection specification works on.
K == "c1"

NoList == <<>>

\* null, for a conversation identifier or a credential.
Null == "null"

\* The cache key of the conversation collection; the message collection has one key
\* for each conversation.
ConversationsKey == "conversations"

Keys == Convs \cup {ConversationsKey}

Conversation(id, title, archived) == [id |-> id, title |-> title, archived |-> archived]

\* A title that is null or undefined.
NoTitle == <<"null">>

\* The conversations the service holds when the page opens.
InitialConversations == [i \in 1 .. 2 |-> Conversation(IF i = 1 THEN "c1" ELSE "c2", NoTitle, FALSE)]

\* The key parts the message query is rendered with: no conversation, or one.
QueryKeys == {Null, K}

\* A query nobody has fetched or written: no data, no fetch under way.
FreshQuery ==
    [status |-> "loading", defined |-> FALSE, data |-> NoList, fetching |-> FALSE,
     failureCount |-> 0]

NoRequest == [url |-> <<>>, method |-> "", headers |-> {}, body |-> ""]

\* The state of what a specification leaves alone: the queries untouched, a session
\* with a credential, nothing sent, no search term.
\* A mutation that was not called, or has settled.
NotCalled == [id |-> 0, state |-> "none", entity |-> [id |-> 0], late |-> FALSE]

ExtInit ==
    /\ query = [k \in QueryKeys |-> FreshQuery]
    /\ observed = Null
    /\ token = "t"
    /\ storage = "t"
    /\ sent = NoRequest
    /\ searchTerm = <<>>
    /\ mutations = [m \in {"PATCH", "DELETE"} |-> NotCalled]
    /\ input = <<>>
    /\ sends = {}
    /\ deletions = {}

RemoveOps == {"splice-remove", "remove"}

ReconcileOps == {"splice", "add", "update"}

\* History record of a step: the operation, the entity handed to it, its identifier,
\* whether that identifier was in the list (findIndex # -1), whether the step
\* before was a removal of the same identifier, and the list before the step.
Step(op, item, old) ==
    [op |-> op, item |-> item, id |-> getId(item),
     hit |-> FindIndex(old, getId(item)) # -1,
     again |-> last.op \in RemoveOps /\ last.id = getId(item),
     before |-> old]

NoStep ==
    [op |-> "none", item |-> [id |-> 0], id |-> 0, hit |-> FALSE, again |-> FALSE,
     before |-> NoList]

SeqsUpTo(S, n) == UNION {[1 .. k -> S] : k \in 0 .. n}

\* Lists the service can answer a GET with: its identifiers are unique.
ServerLists == {l \in SeqsUpTo(Items, MaxId) : Unique(l)}

\* queryClient.setQueryData(key, updater) of updateCollection
SetQueryData(key, item, removeItem) ==
    cache' = [cache EXCEPT ![key] = UpdateCollection(@, item, removeItem)]

\* queryClient.invalidateQueries({ queryKey: key }): the active query refetches,
\* and a fetch already in flight is cancelled and restarted.
InvalidateQueries ==
    /\ refetch' = "sent"
    /\ snapshot' = NoList

InitColl ==
    /\ cache = [k \in Keys |-> IF k = ConversationsKey THEN InitialConversations ELSE NoList]
    /\ refetch = "idle"
    /\ snapshot = NoList
    /\ adding = FALSE
    /\ updating = 0
    /\ removing = 0
    /\ server = [c \in Convs |-> NoList]
    /\ replyStored = 0
    /\ response = [id |-> 0]
    /\ resOk = FALSE
    /\ currentConversationId = K
    /\ selectedModel = "m"
    /\ convKey = K
    /\ pc = "idle"
    /\ flow = "none"
    /\ editId = 0
    /\ toRemove = <<>>
    /\ assistantContent = <<>>
    /\ assistantTmpId = 0
    /\ nread = 0
    /\ now = 0
    /\ nextId = 1
    /\ replyPosts = 0
    /\ received = <<>>
    /\ ended = ""
    /\ editPlan = [upTo |-> <<>>, after |-> <<>>]
    /\ trace = <<>>
    /\ ExtInit
    /\ last = NoStep

\* A caller splices a locally known value in or out: updateCollection(item, remove?)
CallUpdateCollection(item, removeItem) ==
    /\ SetQueryData(K, item, removeItem)
    /\ last' = Step(IF removeItem THEN "splice-remove" ELSE "splice", item, cache[K])
    /\ UNCHANGED <<refetch, snapshot, adding, updating, removing, chatVars>>
    /\ UNCHANGED extVars

\* addItem(item): the POST succeeds and addMutation.onSuccess(newItem) runs.
AddItemSucceeds(newItem) ==
    /\ SetQueryData(K, newItem, FALSE)
    /\ last' = Step("add", newItem, cache[K])
    /\ UNCHANGED <<refetch, snapshot, adding, updating, removing, chatVars>>
    /\ UNCHANGED extVars

\* updateItem({id, data}): the PATCH succeeds and updateMutation.onSuccess(updatedItem) runs.
UpdateItemSucceeds(updatedItem) ==
    /\ SetQueryData(K, updatedItem, FALSE)
    /\ last' = Step("update", updatedItem, cache[K])
    /\ UNCHANGED <<refetch, snapshot, adding, updating, removing, chatVars>>
    /\ UNCHANGED extVars

\* removeItem(id): the DELETE succeeds and removeMutation.onSuccess(id) runs:
\* remove by identifier, then invalidate the query.
RemoveItemSucceeds(id) ==
    /\ SetQueryData(K, [id |-> id], TRUE)
    /\ InvalidateQueries
    /\ last' = Step("remove", [id |-> id], cache[K])
    /\ UNCHANGED <<adding, updating, removing, chatVars>>
    /\ UNCHANGED extVars

\* The refetch started by an invalidation completes with the service's list.
RefetchCompletes(list) ==
    /\ refetch = "sent"
    /\ refetch' = "idle"
    /\ cache' = [cache EXCEPT ![K] = list]
    /\ last' = [NoStep EXCEPT !.op = "refetch"]
    /\ UNCHANGED <<snapshot, adding, updating, removing, chatVars>>
    /\ UNCHANGED extVars

NextColl ==
    \/ \E item \in Items, rm \in BOOLEAN : CallUpdateCollection(item, rm)
    \/ \E item \in Items : AddItemSucceeds(item)
    \/ \E item \in Items : UpdateItemSucceeds(item)
    \/ \E id \in Ids : RemoveItemSucceeds(id)
    \/ \E list \in ServerLists : RefetchCompletes(list)

SpecColl == InitColl /\ [][NextColl]_vars

----------------------------------------------------------------------------
(* Properties of the collection hook, checked under SpecColl *)

\* The list without its p-th entry (1-based); the list itself for p = 0.
RemoveAt(list, p) ==
    IF p = 0 THEN list ELSE SubSeq(list, 1, p - 1) \o SubSeq(list, p + 1, Len(list))

\* C1: starting from a list with unique identifiers, after any sequence of
\* reconciliations the identifiers of the cached list are pairwise distinct, and
\* reconciling an entity whose identifier is already there puts the entity at the
\* index the identifier had, changes no other entry and keeps the length.
C1_UniqueReplaceInPlace ==
    /\ Unique(cache[K])
    /\ (last.op \in ReconcileOps /\ last.hit) =>
          /\ Len(cache[K]) = Len(last.before)
          /\ FindIndex(cache[K], last.id) = FindIndex(last.before, last.id)
          /\ \A i \in DOMAIN cache[K] :
                cache[K][i] = IF getId(last.before[i]) = last.id
                              THEN last.item
                              ELSE last.before[i]

\* C1 witness: an update reconciled an entity whose identifier was already in a
\* list of at least two entries, and changed that entry.
C1_Witness ==
    /\ last.op = "update"
    /\ last.hit
    /\ Len(cache[K]) >= 2
    /\ cache[K] # last.before

\* C9: a removal for an identifier that is absent from the cached list leaves the
\* list as it was, so removing an identifier a second time changes nothing: on
\* every reachable list, removing twice gives what removing once gives.
C9_RemoveAbsentIsNoOp ==
    /\ (last.op \in RemoveOps /\ ~last.hit) => cache[K] = last.before
    /\ (last.op \in RemoveOps /\ last.again) => cache[K] = last.before
    /\ \A id \in Ids :
          LET once == UpdateCollection(cache[K], [id |-> id], TRUE)
          IN  UpdateCollection(once, [id |-> id], TRUE) = once

\* C9 witness: the same identifier was removed a second time, from a list that
\* still holds other entries.
C9_Witness ==
    /\ last.op = "remove"
    /\ last.again
    /\ ~last.hit
    /\ Len(cache[K]) >= 2

\* C10: a removal takes at most one entry out of the list: the list after it is the
\* list before it with at most one position deleted, that position held the removed
\* identifier, and no entry with that identifier is left.
C10_RemoveAtMostOne ==
    last.op \in RemoveOps =>
      /\ Len(last.before) - Len(cache[K]) \in {0, 1}
      /\ \E p \in 0 .. Len(last.before) :
            /\ cache[K] = RemoveAt(last.before, p)
            /\ p # 0 => getId(last.before[p]) = last.id
      /\ last.id \notin IdsOf(cache[K])

\* C10 witness: the middle entry of a list of three was removed.
C10_Witness ==
    /\ last.op = "remove"
    /\ last.hit
    /\ Len(last.before) = 3
    /\ FindIndex(last.before, last.id) = 1
    /\ Len(cache[K]) = 2

----------------------------------------------------------------------------
(* The Chat page: handleSendMessage, handleUpdateMessage, callReply *)

UserText == <<"x">>

EditText == <<"y">>

FinalText == <<"f">>

\* Texts a delta chunk can carry; the empty string is one of them.
Deltas == {<<>>, <<"a">>, <<"b">>}

\* `${Date.now()}-assistant-tmp`: never an identifier the service assigns (those are > 0).
TmpId(t) == 0 - t

NoMessage == [id |-> 0]

\* A parsed chunk: which of the fields `delta` and `message` it has, and their values.
DeltaChunk(d) ==
    [parsed |-> TRUE, hasDelta |-> TRUE, delta |-> d, hasMessage |-> FALSE,
     message |-> NoMessage]

MessageChunk(m) ==
    [parsed |-> TRUE, hasDelta |-> FALSE, delta |-> <<>>, hasMessage |-> TRUE,
     message |-> m]

\* A JSON body that is neither: what a non-2xx response carries.
OtherChunk ==
    [parsed |-> TRUE, hasDelta |-> FALSE, delta |-> <<>>, hasMessage |-> FALSE,
     message |-> NoMessage]

\* JSON.parse throws a SyntaxError.
ParseError == [OtherChunk EXCEPT !.parsed = FALSE]

\* One `data: <json>` line of the body, whole or cut by the read boundary.
Line(json, whole) == [json |-> json, whole |-> whole]

\* JSON.parse(newValue.replace('data:', '').trim()): only the first `data:` goes,
\* so the text parses exactly when the read holds one whole line.
JsonParse(read) ==
    IF Len(read) = 1 /\ read[1].whole THEN read[1].json ELSE ParseError

\* `if (content.message)`: an object is truthy, undefined is not.
HasMessage(content) == content.hasMessage

\* `if (content.delta)`: undefined and the empty string are falsy.
HasDelta(content) == content.hasDelta /\ content.delta # <<>>

\* The entity the service stored under an identifier.
Stored(c, id) == server[c][FindIndex(server[c], id) + 1]

\* What one reader.read() can return while the body is open: delta lines while the
\* reply is being generated, the final message line once it is stored, a body that is
\* neither after a non-2xx status; and reads that do not hold exactly one whole line.
Reads ==
    IF resOk
    THEN (IF replyStored # 0
          THEN {<<Line(MessageChunk(Stored(convKey, replyStored)), TRUE)>>}
          ELSE {<<Line(DeltaChunk(d), TRUE)>> : d \in Deltas})
         \cup {<<Line(DeltaChunk(<<"a">>), TRUE), Line(DeltaChunk(<<"b">>), TRUE)>>,
                <<Line(DeltaChunk(<<"a">>), FALSE)>>}
    ELSE {<<Line(OtherChunk, TRUE)>>}

Placeholder(id, content) == Item(id, "assistant", content)

Idle == {"idle", "done", "failed"}

\* Conversations the page can open on: empty, or user/assistant exchanges already
\* stored by the service and cached.
Exchange(n) == <<Item(2 * n - 1, "user", UserText), Item(2 * n, "assistant", FinalText)>>

InitialLists == {NoList, Exchange(1), Exchange(1) \o Exchange(2)}

Init ==
    /\ \E l \in InitialLists :
          /\ cache = [k \in Keys |-> IF k = K THEN l
                                      ELSE IF k = ConversationsKey THEN InitialConversations
                                      ELSE NoList]
          /\ server = [c \in Convs |-> IF c = K THEN l ELSE NoList]
          /\ nextId = Len(l) + 1
    /\ refetch \in {"idle", "sent"}
    /\ snapshot = NoList
    /\ adding = FALSE
    /\ updating = 0
    /\ removing = 0
    /\ replyStored = 0
    /\ response = [id |-> 0]
    /\ resOk = FALSE
    /\ currentConversationId = K
    /\ selectedModel = "m"
    /\ convKey = K
    /\ pc = "idle"
    /\ flow = "none"
    /\ editId = 0
    /\ toRemove = <<>>
    /\ assistantContent = <<>>
    /\ assistantTmpId = 0
    /\ nread = 0
    /\ now = 0
    /\ replyPosts = 0
    /\ received = <<>>
    /\ ended = ""
    /\ editPlan = [upTo |-> <<>>, after |-> <<>>]
    /\ trace = <<>>
    /\ ExtInit
    /\ last = NoStep

\* History record of a step of the page that leaves the list alone, or replaces it
\* with a fetched one (the list before it is not kept).
ChatStep(op, item) == [NoStep EXCEPT !.op = op, !.item = item, !.id = getId(item)]

\* The list changed: one more value in the history, which is kept for a send in a
\* conversation that was empty on both sides, its list fetched, when the handler
\* started.
Traced(new) ==
    trace' = IF trace # <<>> /\ new # cache[convKey] THEN Append(trace, new) ELSE trace

\* Mutant of the guard: only the conversation is looked at.
RefusesWithoutConversationOnly == currentConversationId = Null

\* `if (!selectedModel || !currentConversationId) return;` of the handlers.
Refuses == selectedModel = "" \/ currentConversationId = Null

\* Mutant of the closure: the key of the conversation selected at the time of the call.
StreamKeyOfSelected == currentConversationId

\* The key callReply's updateCollection writes to: that of the render the handler
\* was created in, whatever is selected since.
StreamKey == convKey

\* A handler starts: its locals, and the histories of its reply, are fresh.
StartHandler(name) ==
    /\ pc \in Idle
    /\ now < MaxFlows
    /\ ~Refuses
    /\ flow' = name
    /\ convKey' = currentConversationId
    /\ now' = now + 1
    /\ assistantContent' = <<>>
    /\ assistantTmpId' = 0
    /\ nread' = 0
    /\ received' = <<>>
    /\ ended' = ""
    /\ replyStored' = 0
    /\ resOk' = FALSE
    /\ response' = [id |-> 0]
    /\ toRemove' = <<>>
    /\ editPlan' = [upTo |-> <<>>, after |-> <<>>]
    /\ trace' = IF /\ name = "send"
                   /\ cache[currentConversationId] = NoList
                   /\ server[currentConversationId] = NoList
                   /\ refetch = "idle"
                THEN <<NoList>>
                ELSE <<>>
    /\ replyPosts' = 0
    /\ UNCHANGED <<cache, refetch, snapshot, server, nextId, pageVars>>
    /\ UNCHANGED extVars

\* handleSendMessage up to `await addItem(userMsg)`: the POST of the message leaves.
HandleSendMessage ==
    /\ StartHandler("send")
    /\ pc' = "posting"
    /\ adding' = TRUE
    /\ editId' = 0
    /\ last' = ChatStep("handleSendMessage", [id |-> 0])
    /\ UNCHANGED <<updating, removing>>

\* The service stores the user message under an identifier of its own.
ServerHandlesPost ==
    /\ pc = "posting"
    /\ server' = [server EXCEPT ![convKey] = Append(@, Item(nextId, "user", UserText))]
    /\ response' = Item(nextId, "user", UserText)
    /\ nextId' = nextId + 1
    /\ pc' = "posted"
    /\ last' = ChatStep("server-post", [id |-> nextId])
    /\ UNCHANGED <<collVars, replyStored, resOk, pageVars, replyVars, convKey, flow,
                   editId, toRemove, now, editPlan, trace>>
    /\ UNCHANGED extVars

\* addMutation.onSuccess(newItem), and `await addItem(userMsg)` returns.
PostSucceeds ==
    /\ pc = "posted"
    /\ SetQueryData(convKey, response, FALSE)
    /\ Traced(cache'[convKey])
    /\ adding' = FALSE
    /\ pc' = "callReply"
    /\ last' = Step("add", response, cache[convKey])
    /\ UNCHANGED <<refetch, snapshot, updating, removing, serverVars, pageVars, replyVars,
                   convKey, flow, editId, toRemove, now, editPlan>>
    /\ UNCHANGED extVars

\* What a non-2xx response carries instead of the entity: a body without identifier.
ErrorBody == Item(0, "error", <<>>)

\* Mutant of the mutations: the status of the response is not looked at.
OnResponseIgnoresStatus(old, ok, item, removeItem) == UpdateCollection(old, item, removeItem)

\* mutationFn and onSuccess of a mutation: `if (!res.ok) throw` and a rejected fetch
\* skip onSuccess, so the list is reconciled only for a 2xx response.
OnResponse(old, ok, item, removeItem) ==
    IF ok THEN UpdateCollection(old, item, removeItem) ELSE old

\* Mutant of the handlers: the rejection is swallowed and the handler goes on.
AfterRejectionGoesOn == "callReply"

\* Where a handler is after `await addItem(...)`, `await updateMessage(...)` or
\* `await removeMessage(...)` rejects: there is no try / catch, so it has ended.
AfterRejection == "failed"

\* A POST, PATCH or DELETE of the collection fails (network error or non-2xx):
\* mutateAsync throws and the handler ends there.
RequestFails ==
    /\ pc \in {"posting", "posted", "patching", "patched", "deleting", "deleted"}
    /\ pc' = AfterRejection
    /\ adding' = FALSE
    /\ updating' = 0
    /\ removing' = 0
    /\ LET isRemove == pc \in {"deleting", "deleted"}
           item == IF isRemove THEN Item(Head(toRemove), "error", <<>>) ELSE ErrorBody
       IN  /\ cache' = [cache EXCEPT ![convKey] = OnResponse(@, FALSE, item, isRemove)]
           /\ last' = Step("request-failed", item, cache[convKey])
    /\ UNCHANGED <<refetch, snapshot, serverVars, pageVars, replyVars, convKey, flow,
                   editId, toRemove, now, editPlan, trace>>
    /\ UNCHANGED extVars

\* callReply up to `await apiFetch(.../reply)`: the placeholder goes in and the
\* POST of the reply request leaves.
CallReply ==
    /\ pc = "callReply"
    /\ selectedModel # ""
    /\ convKey # "null"
    /\ assistantContent' = <<>>
    /\ assistantTmpId' = TmpId(now)
    /\ SetQueryData(StreamKey, Placeholder(TmpId(now), Thinking), FALSE)
    /\ Traced(cache'[convKey])
    /\ replyPosts' = replyPosts + 1
    /\ pc' = "replying"
    /\ last' = Step("callReply", Placeholder(TmpId(now), Thinking), cache[convKey])
    /\ UNCHANGED <<refetch, snapshot, adding, updating, removing, serverVars, pageVars,
                   nread, received, ended, convKey, flow, editId, toRemove, now, editPlan>>
    /\ UNCHANGED extVars

\* apiFetch rejects: a network error on the reply request; callReply throws.
ReplyFetchFails ==
    /\ pc = "replying"
    /\ pc' = "failed"
    /\ ended' = "fetch-error"
    /\ last' = ChatStep("reply-fetch-failed", [id |-> assistantTmpId])
    /\ UNCHANGED <<collVars, serverVars, pageVars, assistantContent, assistantTmpId, nread,
                   replyPosts, received, convKey, flow, editId, toRemove, now, editPlan,
                   trace>>
    /\ UNCHANGED extVars

\* The response of the reply request arrives, 2xx or not; res.ok is not looked at.
ReplyResponds(ok) ==
    /\ pc = "replying"
    /\ pc' = "reading"
    /\ resOk' = ok
    /\ last' = ChatStep("reply-response", [id |-> assistantTmpId])
    /\ UNCHANGED <<collVars, server, replyStored, response, nextId, pageVars, replyVars,
                   convKey, flow, editId, toRemove, now, editPlan, trace>>
    /\ UNCHANGED extVars

\* The service stores the finished reply under an identifier of its own; from then
\* on the body can carry the final message chunk.
ServerStoresReply ==
    /\ pc = "reading"
    /\ resOk
    /\ replyStored = 0
    /\ server' = [server EXCEPT ![convKey] = Append(@, Item(nextId, "assistant", FinalText))]
    /\ replyStored' = nextId
    /\ nextId' = nextId + 1
    /\ last' = ChatStep("server-reply", [id |-> nextId])
    /\ UNCHANGED <<collVars, response, resOk, pageVars, replyVars, handlerVars>>
    /\ UNCHANGED extVars

\* Mutants of the read loop's body.
AfterChunkDeltaOnly(old, content, tmpId, buffer) ==
    IF HasMessage(content)
    THEN UpdateCollection(UpdateCollection(old, content.message, FALSE),
                          Placeholder(tmpId, <<>>), TRUE)
    ELSE IF HasDelta(content)
         THEN UpdateCollection(old, Placeholder(tmpId, content.delta), FALSE)
         ELSE old

AfterChunkKeepsPlaceholder(old, content, tmpId, buffer) ==
    IF HasMessage(content)
    THEN UpdateCollection(old, content.message, FALSE)
    ELSE IF HasDelta(content)
         THEN UpdateCollection(old, Placeholder(tmpId, buffer \o content.delta), FALSE)
         ELSE old

\* The list after one pass of the read loop's body over a parsed chunk.
AfterChunk(old, content, tmpId, buffer) ==
    IF HasMessage(content)
    THEN UpdateCollection(UpdateCollection(old, content.message, FALSE),
                          Placeholder(tmpId, <<>>), TRUE)
    ELSE IF HasDelta(content)
         THEN UpdateCollection(old, Placeholder(tmpId, buffer \o content.delta), FALSE)
         ELSE old

\* One pass of the read loop: reader.read() returned a value.
ProcessRead(read) ==
    /\ pc = "reading"
    /\ nread < MaxChunks
    /\ nread' = nread + 1
    /\ LET content == JsonParse(read)
       IN  IF ~content.parsed
           THEN /\ pc' = "failed"
                /\ ended' = "decode-error"
                /\ last' = ChatStep("decode-error", [id |-> assistantTmpId])
                /\ UNCHANGED <<cache, assistantContent, received, trace>>
           ELSE /\ cache' = [cache EXCEPT ![StreamKey] =
                                AfterChunk(@, content, assistantTmpId, assistantContent)]
                /\ Traced(cache'[convKey])
                /\ assistantContent' =
                      IF ~HasMessage(content) /\ HasDelta(content)
                      THEN assistantContent \o content.delta
                      ELSE assistantContent
                /\ received' =
                      IF content.hasDelta THEN Append(received, content.delta)
                      ELSE received
                /\ pc' = IF HasMessage(content) THEN "done" ELSE "reading"
                /\ ended' = IF HasMessage(content) THEN "message" ELSE ended
                /\ last' =
                      IF HasMessage(content)
                      THEN ChatStep("message", content.message)
                      ELSE IF content.hasDelta
                           THEN ChatStep("delta", Placeholder(assistantTmpId, content.delta))
                           ELSE ChatStep("other", [id |-> assistantTmpId])
    /\ UNCHANGED <<refetch, snapshot, adding, updating, removing, serverVars, pageVars,
                   assistantTmpId, replyPosts, convKey, flow, editId, toRemove, now, editPlan>>
    /\ UNCHANGED extVars

\* reader.read() returns done: the loop ends and callReply returns.
ReadDone ==
    /\ pc = "reading"
    /\ pc' = "done"
    /\ ended' = "eof"
    /\ last' = ChatStep("eof", [id |-> assistantTmpId])
    /\ UNCHANGED <<collVars, serverVars, pageVars, assistantContent, assistantTmpId, nread,
                   replyPosts, received, convKey, flow, editId, toRemove, now, editPlan,
                   trace>>
    /\ UNCHANGED extVars

\* reader.read() rejects: a network error while reading; callReply throws.
ReadFails ==
    /\ pc = "reading"
    /\ pc' = "failed"
    /\ ended' = "read-error"
    /\ last' = ChatStep("read-failed", [id |-> assistantTmpId])
    /\ UNCHANGED <<collVars, serverVars, pageVars, assistantContent, assistantTmpId, nread,
                   replyPosts, received, convKey, flow, editId, toRemove, now, editPlan,
                   trace>>
    /\ UNCHANGED extVars

\* Identifiers of the user messages shown, which the composer lets the user edit.
Editable == {getId(cache[currentConversationId][i]) :
                i \in {j \in DOMAIN cache[currentConversationId] :
                          cache[currentConversationId][j].role = "user"}}

\* handleUpdateMessage up to `await updateMessage(...)`: the PATCH leaves.
HandleUpdateMessage(id) ==
    /\ StartHandler("edit")
    /\ id \in Editable
    /\ pc' = "patching"
    /\ updating' = id
    /\ editId' = id
    /\ last' = ChatStep("handleUpdateMessage", [id |-> id])
    /\ UNCHANGED <<adding, removing>>

\* The service rewrites the content of the message it stores under the identifier.
ServerHandlesPatch ==
    /\ pc = "patching"
    /\ editId \in IdsOf(server[convKey])
    /\ LET updated == [Stored(convKey, editId) EXCEPT !.content = EditText]
       IN  /\ server' = [server EXCEPT ![convKey] = Replace(@, editId, updated)]
           /\ response' = updated
    /\ pc' = "patched"
    /\ last' = ChatStep("server-patch", [id |-> editId])
    /\ UNCHANGED <<collVars, replyStored, resOk, nextId, pageVars, replyVars, convKey, flow,
                   editId, toRemove, now, editPlan, trace>>
    /\ UNCHANGED extVars

\* Mutant of the slice: msgs.slice(index + 2).
IdsFromSkipsOne(list, from) ==
    [i \in 1 .. (Len(list) - from) |-> getId(list[from + i])]

\* msgs.slice(index + 1), as identifiers: those of list[from .. Len(list)], in order.
IdsFrom(list, from) == [i \in 1 .. (Len(list) - from + 1) |-> getId(list[from + i - 1])]

\* updateMutation.onSuccess(updatedItem); then handleUpdateMessage reads the cached
\* list, slices what follows the edited message, and issues the first DELETE, or goes
\* on to callReply when nothing follows.
PatchSucceeds ==
    /\ pc = "patched"
    /\ SetQueryData(convKey, response, FALSE)
    /\ Traced(cache'[convKey])
    /\ updating' = 0
    /\ LET msgs == cache'[convKey]
           index == FindIndex(msgs, editId)
           rest == IdsFrom(msgs, index + 2)
       IN  /\ toRemove' = rest
           /\ editPlan' = [upTo |-> [i \in 1 .. (index + 1) |-> getId(msgs[i])],
                           after |-> [i \in 1 .. (Len(msgs) - index - 1) |->
                                        getId(msgs[index + 1 + i])]]
           /\ pc' = IF rest = <<>> THEN "callReply" ELSE "deleting"
           /\ removing' = IF rest = <<>> THEN 0 ELSE Head(rest)
    /\ last' = Step("update", response, cache[convKey])
    /\ UNCHANGED <<refetch, snapshot, adding, serverVars, pageVars, replyVars, convKey,
                   flow, editId, now>>
    /\ UNCHANGED extVars

\* The service deletes the message (deleting an identifier it does not hold changes
\* nothing there).
ServerHandlesDelete ==
    /\ pc = "deleting"
    /\ server' = [server EXCEPT ![convKey] = Filter(@, Head(toRemove))]
    /\ pc' = "deleted"
    /\ last' = ChatStep("server-delete", [id |-> Head(toRemove)])
    /\ UNCHANGED <<collVars, replyStored, response, resOk, nextId, pageVars, replyVars,
                   convKey, flow, editId, toRemove, now, editPlan, trace>>
    /\ UNCHANGED extVars

\* removeMutation.onSuccess(id): remove, invalidate; then the loop of
\* handleUpdateMessage issues the next DELETE, or goes on to callReply.
DeleteSucceeds ==
    /\ pc = "deleted"
    /\ SetQueryData(convKey, [id |-> Head(toRemove)], TRUE)
    /\ Traced(cache'[convKey])
    /\ InvalidateQueries
    /\ toRemove' = Tail(toRemove)
    /\ pc' = IF Tail(toRemove) = <<>> THEN "callReply" ELSE "deleting"
    /\ removing' = IF Tail(toRemove) = <<>> THEN 0 ELSE Head(Tail(toRemove))
    /\ last' = Step("remove", [id |-> Head(toRemove)], cache[convKey])
    /\ UNCHANGED <<adding, updating, serverVars, pageVars, replyVars, convKey, flow,
                   editId, now, editPlan>>
    /\ UNCHANGED extVars

\* The service answers the GET of the message list with what it holds.
ServeRefetch ==
    /\ refetch = "sent"
    /\ refetch' = "served"
    /\ snapshot' = server[K]
    /\ last' = ChatStep("server-get", [id |-> 0])
    /\ UNCHANGED <<cache, adding, updating, removing, chatVars>>
    /\ UNCHANGED extVars

\* The fetch completes: the fetched list replaces the cached one.
RefetchDelivers ==
    /\ refetch = "served"
    /\ refetch' = "idle"
    /\ cache' = [cache EXCEPT ![K] = snapshot]
    /\ snapshot' = NoList
    /\ trace' = IF convKey = K /\ snapshot # cache[K] /\ trace # <<>>
                THEN Append(trace, snapshot) ELSE trace
    /\ last' = ChatStep("refetch", [id |-> 0])
    /\ UNCHANGED <<adding, updating, removing, serverVars, pageVars, replyVars, convKey, pc,
                   flow, editId, toRemove, now, editPlan>>
    /\ UNCHANGED extVars

Next ==
    \/ HandleSendMessage
    \/ ServerHandlesPost
    \/ PostSucceeds
    \/ RequestFails
    \/ CallReply
    \/ ReplyFetchFails
    \/ \E ok \in BOOLEAN : ReplyResponds(ok)
    \/ ServerStoresReply
    \/ \E read \in Reads : ProcessRead(read)
    \/ ReadDone
    \/ ReadFails
    \/ \E id \in Editable : HandleUpdateMessage(id)
    \/ ServerHandlesPatch
    \/ PatchSucceeds
    \/ ServerHandlesDelete
    \/ DeleteSucceeds
    \/ ServeRefetch
    \/ RefetchDelivers

Spec == Init /\ [][Next]_vars

----------------------------------------------------------------------------
(* Properties of the Chat page, checked under Spec *)

RECURSIVE Concat(_)
\* The texts of a sequence, joined in order.
Concat(texts) == IF texts = <<>> THEN <<>> ELSE Head(texts) \o Concat(Tail(texts))

\* Positions of the running handler's list that hold an identifier / a content.
WithId(id) == {i \in DOMAIN cache[convKey] : getId(cache[convKey][i]) = id}

WithContent(c) == {i \in DOMAIN cache[convKey] : cache[convKey][i].content = c}

\* C2 (as claimed): from the insertion of the placeholder until the stream is over,
\* exactly one entry of the conversation's list has the temporary identifier.
C2_ExactlyOnePlaceholder ==
    pc \in {"replying", "reading"} => Cardinality(WithId(assistantTmpId)) = 1

\* C3 (as claimed): once the reply request has ended, however it ended, no entry
\* of the list has the sentinel content.
C3_NoThinkingAfterReply ==
    (pc \in {"done", "failed"} /\ ended # "") => WithContent(Thinking) = {}

\* C4: in handleUpdateMessage the reply request leaves only when the PATCH and every
\* DELETE have completed; when it leaves, no message that was positioned after the
\* edited one is in the list; and no step of the handler takes the edited message or
\* a message before it out of the list.
C4_EditTruncation ==
    flow = "edit" =>
      /\ pc \in {"patching", "patched", "deleting", "deleted"} =>
            replyPosts = 0 /\ assistantTmpId = 0
      /\ replyPosts > 0 =>
            /\ toRemove = <<>>
            /\ updating = 0
            /\ removing = 0
      /\ last.op = "callReply" =>
            \A i \in DOMAIN editPlan.after :
                editPlan.after[i] \notin IdsOf(cache[convKey])
      /\ last.op = "update" =>
            /\ editPlan.upTo # <<>>
            /\ editPlan.upTo[Len(editPlan.upTo)] = editId
            /\ \A i \in DOMAIN editPlan.upTo :
                  editPlan.upTo[i] \in IdsOf(cache[convKey])
      /\ last.op \in {"update", "remove", "callReply"} =>
            \A i \in DOMAIN editPlan.upTo :
                editPlan.upTo[i] \in IdsOf(last.before) =>
                    editPlan.upTo[i] \in IdsOf(cache[convKey])

\* C4 witness: the first of four messages was edited, the three after it are gone
\* and the reply request has just left.
C4_Witness ==
    /\ flow = "edit"
    /\ last.op = "callReply"
    /\ Len(editPlan.after) = 3
    /\ Len(cache[convKey]) = 2

\* C5 (as claimed): after every delta chunk the placeholder entry has the temporary
\* identifier and the concatenation of all deltas received so far as content.
C5_AfterEveryDelta ==
    last.op = "delta" =>
      /\ Cardinality(WithId(assistantTmpId)) = 1
      /\ \A i \in WithId(assistantTmpId) :
            cache[convKey][i].content = Concat(received)

\* C5 (amended): after every chunk that carries a non-empty delta, exactly one entry
\* has the temporary identifier, and its content is the concatenation, in arrival
\* order, of all deltas received so far.
C5_AfterNonEmptyDelta ==
    (last.op = "delta" /\ last.item.content # <<>>) =>
      /\ Cardinality(WithId(assistantTmpId)) = 1
      /\ \A i \in WithId(assistantTmpId) :
            /\ cache[convKey][i].content = Concat(received)
            /\ cache[convKey][i].role = "assistant"

\* C5 witness: the second of two different non-empty deltas has just been processed.
C5_Witness ==
    /\ last.op = "delta"
    /\ received = <<<<"a">>, <<"b">>>>
    /\ \E i \in WithId(assistantTmpId) : cache[convKey][i].content = <<"a", "b">>

\* C6: when the chunk with the final message has been processed, the list holds that
\* message exactly once, under the identifier the service gave it; from then on no
\* entry has the temporary identifier and the read loop is over, so that no later
\* chunk is processed.
C6_FinalMessageReplaces ==
    /\ last.op = "message" =>
          /\ getId(last.item) = replyStored
          /\ Cardinality(WithId(replyStored)) = 1
          /\ \A i \in WithId(replyStored) : cache[convKey][i] = last.item
    /\ ended = "message" =>
          /\ WithId(assistantTmpId) = {}
          /\ pc = "done"
          /\ last.op \notin {"delta", "other", "decode-error", "eof", "read-failed"}

\* C6 witness: the final message arrived after a delta had filled the placeholder.
C6_Witness ==
    /\ last.op = "message"
    /\ received # <<>>
    /\ assistantContent # <<>>
    /\ Len(cache[convKey]) = 2

\* C7 (as claimed): when the body ends without a final message, the assistant entry
\* holds the accumulated buffer if a delta was received, and an entry left after
\* zero chunks does not hold the sentinel text.
C7_StreamEndsWithoutMessage ==
    last.op = "eof" =>
      /\ received # <<>> =>
            \E i \in WithId(assistantTmpId) :
                cache[convKey][i].content = Concat(received)
      /\ nread = 0 =>
            \A i \in WithId(assistantTmpId) :
                cache[convKey][i].content # Thinking

\* The entries of the end-to-end scenario: the conversation is new, so the service
\* gives the user message the identifier 1 and the reply the identifier 2.
UserEntry == Item(1, "user", UserText)

FinalEntry == Item(2, "assistant", FinalText)

\* The end-to-end scenario is running: a send in a conversation that was empty, with
\* its empty list fetched and no fetch under way.
Scenario == trace # <<>>

RECURSIVE Partials(_, _)
\* The values the list takes while deltas arrive: one per non-empty delta, holding
\* the text accumulated so far.
Partials(buffer, deltas) ==
    IF deltas = <<>>
    THEN <<>>
    ELSE IF Head(deltas) = <<>>
         THEN Partials(buffer, Tail(deltas))
         ELSE <<<<UserEntry, Placeholder(assistantTmpId, buffer \o Head(deltas))>>>>
              \o Partials(buffer \o Head(deltas), Tail(deltas))

C11_FailedMutationKeepsList ==
    last.op = "request-failed" =>
      /\ cache[convKey] = last.before
      /\ pc = "failed"
      /\ ~adding /\ updating = 0 /\ removing = 0
      /\ replyPosts = 0
      /\ assistantTmpId = 0

\* C11 witness: a DELETE of the edit failed while the list held the message it was for.
C11_Witness ==
    /\ last.op = "request-failed"
    /\ flow = "edit"
    /\ toRemove # <<>>
    /\ last.hit
    /\ Len(cache[convKey]) >= 2

\* C12: reconciling an entity whose identifier is new gives the list before it with
\* the entity as one more, last, element; and in the cached list of the conversation
\* the messages the service has stored stand in the order in which the service
\* stored them (its identifiers grow).
C12_AppendKeepsOrder ==
    /\ (last.op \in {"add", "callReply"} /\ ~last.hit) =>
          cache[convKey] = Append(last.before, last.item)
    /\ \A i, j \in DOMAIN cache[convKey] :
          (i < j /\ getId(cache[convKey][i]) > 0 /\ getId(cache[convKey][j]) > 0) =>
              getId(cache[convKey][i]) < getId(cache[convKey][j])

\* C12 witness: the user message of a send was appended to a list of two.
C12_Witness ==
    /\ last.op = "add"
    /\ ~last.hit
    /\ Len(last.before) = 2
    /\ Len(cache[convKey]) = 3

----------------------------------------------------------------------------
(* The resource cache: useApiQuery on the message list, key by key *)

\* Mutant: the query is enabled whatever the key.
EnabledAlways(k) == TRUE

\* `enabled: !!currentConversationId` of the message collection.
Enabled(k) == k # Null

\* defaultOptions.queries.retry of the QueryClient the application creates.
Retry == 0

\* A response of the GET: its status and, for a 2xx, the list it carries.
Response(ok, body) == [ok |-> ok, body |-> body]

\* Mutant of the query function: the status is not looked at.
QueryFnIgnoresStatus(res) == [threw |-> FALSE, data |-> res.body]

\* The query function of useApiQuery: throws on a non-2xx status, else gives the
\* decoded body (no transform is configured for the message list).
QueryFn(res) ==
    IF ~res.ok THEN [threw |-> TRUE, data |-> NoList] ELSE [threw |-> FALSE, data |-> res.body]

\* `data: messages = []`: the value the hook's caller sees for a key.
Data(k) == IF query[k].defined THEN query[k].data ELSE <<>>

\* History record of a step of the resource cache: the key it was about and the
\* value exposed for that key before it (and, for the end of a fetch, what arrived).
QueryStep(op, k) == [NoStep EXCEPT !.op = op, !.item = [id |-> k], !.id = k, !.before = Data(k)]

\* The query of an enabled key starts a fetch; a fetch already under way is cancelled
\* and replaced by it.
StartFetch(k) == query' = [query EXCEPT ![k].fetching = TRUE, ![k].failureCount = 0]

\* The hook is rendered with a key: its observer subscribes to the query of that key
\* and, if enabled, fetches (the data of a query is stale at once).
Render(k) ==
    /\ observed # k
    /\ observed' = k
    /\ IF Enabled(k)
       THEN StartFetch(k) /\ last' = QueryStep("get", k)
       ELSE UNCHANGED query /\ last' = QueryStep("render", k)
    /\ UNCHANGED <<collVars, chatVars, apiVars, searchTerm, mutations, composerVars, deletions>>

\* queryClient.invalidateQueries({ queryKey }): a query that has an enabled observer
\* refetches, any other is only marked stale.
Invalidate(k) ==
    /\ IF observed = k /\ Enabled(k)
       THEN StartFetch(k) /\ last' = QueryStep("get", k)
       ELSE UNCHANGED query /\ last' = QueryStep("invalidate", k)
    /\ UNCHANGED <<observed, collVars, chatVars, apiVars, searchTerm, mutations, composerVars, deletions>>

\* updateCollection writes the list of a key (setQueryData): the query has data from
\* then on. Handlers only run with a conversation selected.
WriteCollection(k, item) ==
    /\ Enabled(k)
    /\ query' = [query EXCEPT ![k].data = UpdateCollection(Data(k), item, FALSE),
                              ![k].defined = TRUE,
                              ![k].status = "success"]
    /\ last' = QueryStep("write", k)
    /\ UNCHANGED <<observed, collVars, chatVars, apiVars, searchTerm, mutations, composerVars, deletions>>

\* The fetch of a key ends: with a response, or with a rejected request.
FetchEnds(k, rejected, res) ==
    /\ query[k].fetching
    /\ LET result == IF rejected THEN [threw |-> TRUE, data |-> NoList] ELSE QueryFn(res)
           arrived == IF rejected THEN "rejected" ELSE IF res.ok THEN "2xx" ELSE "non-2xx"
           endStep(op) == [QueryStep(op, k) EXCEPT !.item = [id |-> k, arrived |-> arrived]]
       IN  IF ~result.threw
           THEN /\ query' = [query EXCEPT ![k] =
                                [status |-> "success", defined |-> TRUE, data |-> result.data,
                                 fetching |-> FALSE, failureCount |-> 0]]
                /\ last' = endStep("fetch-ended")
           ELSE IF query[k].failureCount < Retry
                THEN /\ query' = [query EXCEPT ![k].failureCount = @ + 1]
                     /\ last' = QueryStep("get", k)
                ELSE /\ query' = [query EXCEPT ![k].status = "error",
                                               ![k].fetching = FALSE,
                                               ![k].failureCount = @ + 1]
                     /\ last' = endStep("fetch-ended")
    /\ UNCHANGED <<observed, collVars, chatVars, apiVars, searchTerm, mutations, composerVars, deletions>>

InitQuery == InitColl

NextQuery ==
    \/ \E k \in QueryKeys : Render(k)
    \/ \E k \in QueryKeys : Invalidate(k)
    \/ \E k \in QueryKeys, item \in Items : WriteCollection(k, item)
    \/ \E k \in QueryKeys, rejected \in BOOLEAN, ok \in BOOLEAN, body \in InitialLists :
          FetchEnds(k, rejected, Response(ok, IF ok THEN body ELSE NoList))

SpecQuery == InitQuery /\ [][NextQuery]_vars

\* C13: the query of a key that is not enabled is never fetching and has never
\* failed or succeeded, no step issues a GET for it, whatever the invalidations, and
\* the value exposed for it is the empty list; so while no conversation is selected
\* the message list shown is empty and no GET of it has left.
C13_DisabledNeverFetches ==
    /\ \A k \in QueryKeys :
          ~Enabled(k) =>
            /\ ~query[k].fetching
            /\ query[k].failureCount = 0
            /\ query[k].status = "loading"
            /\ Data(k) = <<>>
    /\ last.op = "get" => last.id # Null
    /\ observed = Null => Data(observed) = <<>>

\* C13 witness: the query of the null key was invalidated, while the hook was
\* rendered with it and another key had data.
C13_Witness ==
    /\ last.op = "invalidate"
    /\ last.id = Null
    /\ observed = Null
    /\ query[K].defined
    /\ Data(K) # <<>>

\* The last step was the end of a fetch that got a non-success status or was
\* rejected.
FetchFailed == last.op = "fetch-ended" /\ last.item.arrived # "2xx"

\* C17 (as claimed): after a fetch that got a non-success status, or was rejected,
\* the query is in error, the value exposed for the key is the empty list, and no
\* request of the query is under way.
C17_FailedFetchGivesEmpty ==
    FetchFailed =>
      /\ query[last.id].status = "error"
      /\ Data(last.id) = <<>>
      /\ ~query[last.id].fetching

\* C17 (amended): after such a fetch the query is in error, no request of the query
\* is under way and none was issued again for it, and the value exposed for the key
\* is the value exposed before: the data the key held, the empty list if it held none.
C17_FailedFetchKeepsData ==
    /\ FetchFailed =>
          /\ query[last.id].status = "error"
          /\ ~query[last.id].fetching
          /\ query[last.id].failureCount = 1
          /\ Data(last.id) = last.before
          /\ ~query[last.id].defined => Data(last.id) = <<>>
    /\ \A k \in QueryKeys : query[k].failureCount <= 1

\* C17 witness: the refetch of a key that held two messages got a non-success status.
C17_Witness ==
    /\ FetchFailed
    /\ last.item.arrived = "non-2xx"
    /\ query[K].status = "error"
    /\ Len(Data(K)) = 2

----------------------------------------------------------------------------
(* The Chat page with its two collections: the conversations and the messages
   of the selected one, a reply streaming while the user navigates *)

\* A title the user types when renaming.
NewTitle == <<"t">>

\* What the user can change of a conversation: its title, or its archived flag.
ConversationData == {"title", "archived"}

\* The conversation the service sends back for a PATCH with this data.
Patched(conv, data) ==
    IF data = "title" THEN [conv EXCEPT !.title = NewTitle]
    ELSE [conv EXCEPT !.archived = ~conv.archived]

\* Mutant of the conversation collection's write: the message lists are reset.
ConversationUpdateResetsMessages(item, removeItem) ==
    cache' = [k \in Keys |-> IF k = ConversationsKey
                             THEN UpdateCollection(cache[k], item, removeItem)
                             ELSE NoList]

\* updateCollection of the conversation collection: it writes under its own key.
ConversationUpdate(item, removeItem) == SetQueryData(ConversationsKey, item, removeItem)

\* The page opens: the conversations are loaded, none is selected, the models are
\* not loaded yet, no message is cached or stored.
PageOpens ==
    /\ cache = [k \in Keys |-> IF k = ConversationsKey THEN InitialConversations ELSE NoList]
    /\ server = [c \in Convs |-> NoList]
    /\ nextId = 1
    /\ refetch = "idle"
    /\ snapshot = NoList
    /\ adding = FALSE
    /\ updating = 0
    /\ removing = 0
    /\ replyStored = 0
    /\ response = [id |-> 0]
    /\ resOk = FALSE
    /\ currentConversationId = Null
    /\ selectedModel = ""
    /\ convKey = Null
    /\ pc = "idle"
    /\ flow = "none"
    /\ editId = 0
    /\ toRemove = <<>>
    /\ assistantContent = <<>>
    /\ assistantTmpId = 0
    /\ nread = 0
    /\ now = 0
    /\ replyPosts = 0
    /\ received = <<>>
    /\ ended = ""
    /\ editPlan = [upTo |-> <<>>, after |-> <<>>]
    /\ trace = <<>>

InitPage == PageOpens /\ ExtInit /\ last = NoStep

\* A step of the page outside the running handler: it leaves the handler, the reply
\* and the service's messages alone.
PageStep(op) ==
    /\ last' = ChatStep(op, [id |-> 0])
    /\ UNCHANGED <<refetch, snapshot, adding, updating, removing, serverVars, replyVars,
                   handlerVars>>
    /\ UNCHANGED extVars

\* The models arrive and the effect selects the first one.
ModelsLoad ==
    /\ selectedModel = ""
    /\ selectedModel' = "m"
    /\ PageStep("models")
    /\ UNCHANGED <<cache, currentConversationId>>

\* The effect that selects the first conversation when none is selected.
AutoSelect ==
    /\ currentConversationId = Null
    /\ cache[ConversationsKey] # <<>>
    /\ currentConversationId' = getId(cache[ConversationsKey][1])
    /\ PageStep("select")
    /\ UNCHANGED <<cache, selectedModel>>

\* Sidebar.onSelectConversation.
SelectConversation(id) ==
    /\ id \in IdsOf(cache[ConversationsKey])
    /\ id # currentConversationId
    /\ currentConversationId' = id
    /\ PageStep("select")
    /\ UNCHANGED <<cache, selectedModel>>

\* handleSendMessage returns at its guard.
HandleSendRefused ==
    /\ pc \in Idle
    /\ Refuses
    /\ PageStep("send-refused")
    /\ UNCHANGED <<cache, pageVars>>

\* updateConversation({id, data}) and its onSuccess: a rename, or an archive toggle.
UpdateConversation(id, data) ==
    /\ id \in IdsOf(cache[ConversationsKey])
    /\ LET conv == cache[ConversationsKey][FindIndex(cache[ConversationsKey], id) + 1]
       IN  ConversationUpdate(Patched(conv, data), FALSE)
    /\ PageStep("conversation-updated")
    /\ UNCHANGED pageVars

\* onDeleteConversation / handleDeleteCurrent: removeConversation(id) and its
\* onSuccess, then the selection moves to the first conversation left when the
\* deleted one was selected.
DeleteConversation(id) ==
    /\ id \in IdsOf(cache[ConversationsKey])
    /\ ConversationUpdate([id |-> id], TRUE)
    /\ LET remaining == Filter(cache[ConversationsKey], id)
       IN  currentConversationId' =
              IF currentConversationId = id
              THEN IF remaining = <<>> THEN Null ELSE getId(remaining[1])
              ELSE currentConversationId
    /\ PageStep("conversation-removed")
    /\ UNCHANGED selectedModel

NextPage ==
    \/ ModelsLoad
    \/ AutoSelect
    \/ \E id \in Convs : SelectConversation(id)
    \/ HandleSendRefused
    \/ \E id \in Convs, data \in ConversationData : UpdateConversation(id, data)
    \/ \E id \in Convs : DeleteConversation(id)
    \/ HandleSendMessage
    \/ ServerHandlesPost
    \/ PostSucceeds
    \/ RequestFails
    \/ CallReply
    \/ ReplyFetchFails
    \/ \E ok \in BOOLEAN : ReplyResponds(ok)
    \/ ServerStoresReply
    \/ \E read \in Reads : ProcessRead(read)
    \/ ReadDone
    \/ ReadFails

SpecPage == InitPage /\ [][NextPage]_vars

\* The steps of a reply stream that write to the cache.
StreamOps == {"callReply", "delta", "message", "other"}

\* Steps on the conversation collection.
ConversationOps == {"conversation-updated", "conversation-removed"}

\* A reply is streaming: from the placeholder to the end of the read loop.
Streaming == pc \in {"replying", "reading"}

\* C14: every write of a reply stream goes to the key of the conversation the
\* reply was started for, whatever is selected at that time: a stream step leaves
\* the list of every other conversation as it was, in particular that of the
\* conversation selected since; a change of the selection leaves the stream where
\* it is, and the final message ends in the list of the conversation of the reply.
C14_StreamWritesItsOwnKey ==
    [][/\ last'.op \in StreamOps =>
             /\ \A c \in Convs \ {convKey} : cache'[c] = cache[c]
             /\ (currentConversationId # convKey /\ currentConversationId # Null
                    => cache'[currentConversationId] = cache[currentConversationId])
             /\ (last'.op = "message" =>
                    \E i \in DOMAIN cache'[convKey] : cache'[convKey][i] = last'.item)
       /\ currentConversationId' # currentConversationId =>
             UNCHANGED <<pc, convKey, replyVars>>]_vars

C14_Witness ==
    /\ last.op = "message"
    /\ ended = "message"
    /\ currentConversationId \in Convs \ {convKey}
    /\ cache[currentConversationId] = NoList
    /\ received # <<>>

\* C15: a write under one key leaves the value of every other key as it was: a
\* rename, an archive toggle or a deletion of a conversation leaves every message
\* list unchanged, also while a reply streams, and a stream step leaves the
\* conversation list unchanged.
C15_KeysAreIndependent ==
    [][/\ last'.op \in ConversationOps =>
             \A c \in Convs : cache'[c] = cache[c]
       /\ last'.op \in StreamOps =>
             cache'[ConversationsKey] = cache[ConversationsKey]]_vars

C15_Witness ==
    /\ last.op \in ConversationOps
    /\ Streaming
    /\ received # <<>>
    /\ cache[convKey] # NoList
    /\ cache[ConversationsKey] # InitialConversations

\* C18: while no model is selected a send is refused without effect: no handler
\* runs, no request is pending or was issued, the message lists and the service's
\* lists are as when the page opened, and no handler has failed.
C18_NoModelNoSend ==
    selectedModel = "" =>
       /\ pc = "idle"
       /\ ~adding
       /\ replyPosts = 0
       /\ now = 0
       /\ \A c \in Convs : cache[c] = NoList /\ server[c] = NoList

C18_Witness ==
    /\ last.op = "send-refused"
    /\ selectedModel = ""
    /\ currentConversationId # Null

----------------------------------------------------------------------------
(* The transport adapter: useApi *)

\* A property of the options that the caller left out.
Undefined == "undefined"

\* import.meta.env.VITE_API_URL
BaseUrl == <<"https://api">>

\* Headers keeps its names in lower case.
HeaderName(name) ==
    CASE name = "Authorization" -> "authorization"
      [] name = "Content-Type" -> "content-type"
      [] name = "Accept" -> "accept"
      [] OTHER -> name

NoHeaders == [n \in {} |-> <<>>]

\* Headers.append: a name already there gets the value joined to its own.
HeadersAppend(h, name, value) ==
    LET n == HeaderName(name)
    IN  [x \in DOMAIN h \cup {n} |->
            IF x # n THEN h[x]
            ELSE IF n \in DOMAIN h THEN h[n] \o <<", ">> \o value ELSE value]

\* Headers.set: the value replaces what the name had.
HeadersSet(h, name, value) ==
    LET n == HeaderName(name)
    IN  [x \in DOMAIN h \cup {n} |-> IF x = n THEN value ELSE h[x]]

RECURSIVE FromEntries(_, _)
FromEntries(h, entries) ==
    IF entries = <<>> THEN h
    ELSE FromEntries(HeadersAppend(h, Head(entries)[1], Head(entries)[2]), Tail(entries))

\* new Headers(init): of nothing, of an object's entries, or of another Headers.
NewHeaders(init) ==
    CASE init.kind = "undefined" -> NoHeaders
      [] init.kind = "object" -> FromEntries(NoHeaders, init.entries)
      [] init.kind = "headers" -> init.map

\* The request fetch(url, init) sends.
Fetch(url, init) ==
    [url |-> url,
     method |-> IF init.method = Undefined THEN "GET" ELSE init.method,
     headers |-> NewHeaders(init.headers),
     body |-> init.body]

\* `Bearer ${token}`
Bearer(tok) == <<"Bearer ", tok>>

\* Mutant of the adapter: the header is set whatever the token is.
ApiFetchAlwaysAuthorizes(tok, path, options) ==
    LET headers == NewHeaders(IF options.headers.kind = "undefined"
                              THEN [kind |-> "object", entries |-> <<>>]
                              ELSE options.headers)
    IN  Fetch(BaseUrl \o path,
              [options EXCEPT !.headers =
                  [kind |-> "headers", map |-> HeadersSet(headers, "Authorization", Bearer(tok))]])

\* The function useApi returns, for the token of the render: what it hands to fetch.
ApiFetch(tok, path, options) ==
    LET headers == NewHeaders(IF options.headers.kind = "undefined"
                              THEN [kind |-> "object", entries |-> <<>>]
                              ELSE options.headers)
        authorized == IF tok # Null /\ tok # ""
                      THEN HeadersSet(headers, "Authorization", Bearer(tok))
                      ELSE headers
    IN  Fetch(BaseUrl \o path, [options EXCEPT !.headers = [kind |-> "headers", map |-> authorized]])

\* What localStorage can hold under 'token', and what a login can receive.
Tokens == {"", "t"}

\* The paths and the options the callers of the adapter use.
Paths == {<<"/conversations">>, <<"/conversations", "/", "c1">>}

CallerHeaders ==
    {[kind |-> "undefined"],
     [kind |-> "object", entries |-> <<>>],
     [kind |-> "object", entries |-> <<<<"Content-Type", <<"application/json">>>>>>],
     [kind |-> "object", entries |-> <<<<"Authorization", <<"Bearer ", "x">>>>>>],
     [kind |-> "object", entries |-> <<<<"authorization", <<"Basic ", "y">>>>,
                                       <<"Content-Type", <<"application/json">>>>>>],
     [kind |-> "object", entries |-> <<<<"Accept", <<"a">>>>, <<"accept", <<"b">>>>>>]}

CallerOptions ==
    [method : {Undefined, "POST", "DELETE"}, headers : CallerHeaders, body : {Undefined, "{}"}]

InitApi ==
    /\ PageOpens
    /\ query = [k \in QueryKeys |-> FreshQuery]
    /\ observed = Null
    /\ token \in Tokens \cup {Null}
    /\ storage = token
    /\ sent = NoRequest
    /\ searchTerm = <<>>
    /\ mutations = [m \in {"PATCH", "DELETE"} |-> NotCalled]
    /\ input = <<>>
    /\ sends = {}
    /\ deletions = {}
    /\ last = NoStep

\* A step of the session or of the adapter: the collections and the page stay.
ApiStep(op, path, options) ==
    /\ last' = [NoStep EXCEPT !.op = op, !.item = [id |-> 0, path |-> path, options |-> options]]
    /\ UNCHANGED <<collVars, chatVars, queryVars, searchTerm, mutations, composerVars, deletions>>

\* The string 'undefined', which is not the value undefined.
UndefinedString == "'undefined'"

\* The string localStorage.setItem stores for a value.
StringOf(value) == IF value = Undefined THEN UndefinedString ELSE value

\* setToken(receivedToken); localStorage.setItem('token', receivedToken);
SaveToken(receivedToken) ==
    /\ token' = receivedToken
    /\ storage' = StringOf(receivedToken)

\* AuthContext.login / signup: the token received is kept.
Login(tok) ==
    /\ SaveToken(tok)
    /\ ApiStep("login", <<>>, Undefined)
    /\ UNCHANGED sent

\* AuthContext.logout.
Logout ==
    /\ token' = Null
    /\ storage' = Null
    /\ ApiStep("logout", <<>>, Undefined)
    /\ UNCHANGED sent

\* A caller invokes the adapter.
CallApi(path, options) ==
    /\ sent' = ApiFetch(token, path, options)
    /\ ApiStep("apiFetch", path, options)
    /\ UNCHANGED <<token, storage>>

NextApi ==
    \/ \E tok \in Tokens : Login(tok)
    \/ Logout
    \/ \E path \in Paths, options \in CallerOptions : CallApi(path, options)

SpecApi == InitApi /\ [][NextApi]_vars

\* C16: the adapter sends to base URL + path; with a credential in the session the
\* request carries Authorization: Bearer <credential> (replacing an Authorization
\* header of the caller) and the caller's other headers; with none (null, or the
\* empty string) the request is the one fetch would send for the caller's own
\* options, so it has an Authorization header only if the caller gave one; method
\* and body are the caller's in both cases.
C16_BearerIffCredential ==
    last.op = "apiFetch" =>
       LET path == last.item.path
           options == last.item.options
           plain == Fetch(BaseUrl \o path, options)
       IN  /\ sent.url = BaseUrl \o path
           /\ sent.method = plain.method
           /\ sent.body = options.body
           /\ \A n \in DOMAIN plain.headers \ {"authorization"} :
                 n \in DOMAIN sent.headers /\ sent.headers[n] = plain.headers[n]
           /\ token \notin {Null, ""} =>
                 /\ DOMAIN sent.headers = DOMAIN plain.headers \cup {"authorization"}
                 /\ sent.headers["authorization"] = <<"Bearer ", token>>
           /\ token \in {Null, ""} => sent = plain

C16_Witness ==
    /\ last.op = "apiFetch"
    /\ token = "t"
    /\ last.item.options.headers.kind = "object"
    /\ Len(last.item.options.headers.entries) = 2
    /\ sent.headers["authorization"] = <<"Bearer ", "t">>
    /\ sent.headers["content-type"] = <<"application/json">>

----------------------------------------------------------------------------
(* The pending flags of the collection *)

\* mutation.isPending of the add, update and remove mutations: true from the call
\* of the mutation until it settles.
IsPending(mutation) ==
    CASE mutation = "add" -> adding
      [] mutation = "update" -> updating # 0
      [] mutation = "remove" -> removing # 0

\* Mutant of the aggregate flag: only the add mutation is looked at.
LoadingOfAddOnly == IsPending("add")

\* loading: addMutation.isPending || updateMutation.isPending || removeMutation.isPending
Loading == IsPending("add") \/ IsPending("update") \/ IsPending("remove")

\* The positions of a handler at which a POST, PATCH or DELETE of the collection
\* has left and has not settled.
MutationInFlight == pc \in {"posting", "posted", "patching", "patched", "deleting", "deleted"}

----------------------------------------------------------------------------
(* The search filter of the conversation list *)

\* String.prototype.toLowerCase, letter by letter; strings are sequences of characters.
Lower(ch) ==
    CASE ch = "T" -> "t"
      [] ch = "R" -> "r"
      [] ch = "P" -> "p"
      [] ch = "N" -> "n"
      [] ch = "C" -> "c"
      [] ch = "U" -> "u"
      [] OTHER -> ch

ToLowerCase(str) == [i \in DOMAIN str |-> Lower(str[i])]

\* String.prototype.includes
Includes(str, part) ==
    \E from \in 0 .. (Len(str) - Len(part)) :
        \A i \in DOMAIN part : str[from + i] = part[i]

\* The text the filter matches for a conversation without a title.
NewConversation ==
    <<"N", "e", "w", " ", "C", "o", "n", "v", "e", "r", "s", "a", "t", "i", "o", "n">>

\* `conv.title || 'New Conversation'`
FilterTitle(conv) ==
    IF conv.title = NoTitle \/ conv.title = <<>> THEN NewConversation ELSE conv.title

RECURSIVE FilterBySearch(_, _)
FilterBySearch(convs, term) ==
    IF convs = <<>> THEN <<>>
    ELSE LET rest == FilterBySearch(Tail(convs), term)
         IN  IF Includes(ToLowerCase(FilterTitle(Head(convs))), ToLowerCase(term))
             THEN <<Head(convs)>> \o rest
             ELSE rest

\* filteredConversations of the render.
FilteredConversations == FilterBySearch(cache[ConversationsKey], searchTerm)

\* Titles the user gives, and terms the user searches for.
TripPlan == <<"T", "r", "i", "p", " ", "P", "l", "a", "n">>

Recipe == <<"R", "e", "c", "i", "p", "e">>

Titles == {TripPlan, Recipe}

SearchTerms == {<<>>, <<"t", "r", "i", "p">>, <<"R", "E">>, <<"n", "e", "w">>, <<"x">>}

InitSidebar == InitPage

\* The search box's onChange: setSearchTerm.
SetSearchTerm(term) ==
    /\ searchTerm' = term
    /\ last' = ChatStep("search", [id |-> 0])
    /\ UNCHANGED <<collVars, chatVars, queryVars, apiVars, mutations, composerVars, deletions>>

\* onRenameConversation(id, title) and the onSuccess of its PATCH.
RenameConversation(id, title) ==
    /\ id \in IdsOf(cache[ConversationsKey])
    /\ LET conv == cache[ConversationsKey][FindIndex(cache[ConversationsKey], id) + 1]
       IN  ConversationUpdate([conv EXCEPT !.title = title], FALSE)
    /\ PageStep("conversation-updated")
    /\ UNCHANGED pageVars

NextSidebar ==
    \/ \E term \in SearchTerms : SetSearchTerm(term)
    \/ \E id \in Convs, title \in Titles : RenameConversation(id, title)
    \/ \E id \in Convs : DeleteConversation(id)

SpecSidebar == InitSidebar /\ [][NextSidebar]_vars

\* The two characters are the same letter, whatever their case.
SameLetter(a, b) == Lower(a) = Lower(b)

\* The conversation has a title and the term occurs in it, letter case ignored; the
\* empty term occurs everywhere.
TitleContains(conv, term) ==
    \/ term = <<>>
    \/ /\ conv.title # NoTitle
       /\ \E from \in 0 .. (Len(conv.title) - Len(term)) :
             \A i \in DOMAIN term : SameLetter(conv.title[from + i], term[i])

\* C20: the list shown holds exactly the cached conversations whose title contains
\* the search term, letter case ignored, in the order of the cached list; with the
\* empty term it is the cached list.
C20_ShownAreTitleMatches ==
    LET convs == cache[ConversationsKey]
        shown == FilteredConversations
        At(id, list) == FindIndex(list, id)
    IN  /\ \A i \in DOMAIN convs :
              (\E j \in DOMAIN shown : shown[j] = convs[i]) <=> TitleContains(convs[i], searchTerm)
        /\ \A j \in DOMAIN shown : \E i \in DOMAIN convs : shown[j] = convs[i]
        /\ \A j, k \in DOMAIN shown :
              j < k => At(getId(shown[j]), convs) < At(getId(shown[k]), convs)
        /\ searchTerm = <<>> => shown = convs

----------------------------------------------------------------------------
(* The session: AuthProvider *)

\* What the `api_key` and `token` fields of a response body can hold.
Fields == {Undefined, "", "t", "u"}

\* The bodies the service can answer /auth/login and /auth/signup with.
Bodies == [api_key : Fields, token : Fields]

InitAuth == InitApi

\* A step of the session, with the body received and the credential in memory and
\* in storage before it.
AuthStep(op, body) ==
    /\ last' = [NoStep EXCEPT !.op = op,
                              !.item = [id |-> 0, body |-> body, token |-> token,
                                        storage |-> storage]]
    /\ UNCHANGED <<collVars, chatVars, queryVars, searchTerm, sent, mutations, composerVars, deletions>>

\* login: the response is 2xx and its body parses.
LoginSucceeds(data) ==
    /\ SaveToken(data.api_key)
    /\ AuthStep("login", data)

\* signup: the response is 2xx and its body parses.
SignupSucceeds(data) ==
    /\ SaveToken(data.token)
    /\ AuthStep("signup", data)

\* login or signup throws: fetch rejects, the response is not 2xx, or res.json()
\* rejects; whatever body came is not looked at.
AuthFails(name, data) ==
    /\ AuthStep(name, data)
    /\ UNCHANGED <<token, storage>>

\* The page is loaded again: useState's initializer reads the storage.
Reload ==
    /\ token' = storage
    /\ AuthStep("reload", [api_key |-> Undefined, token |-> Undefined])
    /\ UNCHANGED storage

NextAuth ==
    \/ \E data \in Bodies : LoginSucceeds(data)
    \/ \E data \in Bodies : SignupSucceeds(data)
    \/ \E name \in {"login-failed", "signup-failed"}, data \in Bodies : AuthFails(name, data)
    \/ Logout
    \/ Reload

SpecAuth == InitAuth /\ [][NextAuth]_vars

\* C21: after every login, signup and logout, successful or failed, the credential
\* in memory equals the one in storage; a failed login or signup changes neither,
\* and logout leaves both absent.
C21_MemoryEqualsStorage ==
    /\ token = storage
    /\ last.op \in {"login-failed", "signup-failed"} =>
          token = last.item.token /\ storage = last.item.storage
    /\ last.op = "logout" => token = Null /\ storage = Null

----------------------------------------------------------------------------
(* updateItem and removeItem called without awaiting one another: a PATCH and a
   DELETE in flight on one cache key, settling in either order *)

InitRace == Init

\* What a step of the two mutations leaves alone.
RaceFrame ==
    UNCHANGED <<adding, replyStored, response, resOk, nextId, pageVars, replyVars,
                handlerVars, queryVars, apiVars, searchTerm, composerVars, deletions>>

\* updateItem({id, data}): the PATCH leaves.
CallUpdateItem(id) ==
    /\ mutations["PATCH"].state = "none"
    /\ id \in IdsOf(cache[K])
    /\ mutations' = [mutations EXCEPT !["PATCH"] = [NotCalled EXCEPT !.id = id, !.state = "sent"]]
    /\ updating' = id
    /\ last' = ChatStep("updateItem", [id |-> id])
    /\ UNCHANGED <<cache, refetch, snapshot, removing, server>>
    /\ RaceFrame

\* removeItem(id): the DELETE leaves.
CallRemoveItem(id) ==
    /\ mutations["DELETE"].state = "none"
    /\ id \in IdsOf(cache[K])
    /\ mutations' = [mutations EXCEPT !["DELETE"] = [NotCalled EXCEPT !.id = id, !.state = "sent"]]
    /\ removing' = id
    /\ last' = ChatStep("removeItem", [id |-> id])
    /\ UNCHANGED <<cache, refetch, snapshot, updating, server>>
    /\ RaceFrame

\* The service handles the PATCH: it answers with the entity rewritten, or with an
\* error when it does not hold the identifier.
ServiceHandlesPatch ==
    /\ mutations["PATCH"].state = "sent"
    /\ LET id == mutations["PATCH"].id
       IN  IF id \in IdsOf(server[K])
           THEN LET updated == [Stored(K, id) EXCEPT !.content = EditText]
                IN  /\ server' = [server EXCEPT ![K] = Replace(@, id, updated)]
                    /\ mutations' = [mutations EXCEPT !["PATCH"].state = "2xx",
                                                      !["PATCH"].entity = updated]
           ELSE /\ mutations' = [mutations EXCEPT !["PATCH"].state = "non-2xx"]
                /\ UNCHANGED server
    /\ last' = ChatStep("server-patch", [id |-> mutations["PATCH"].id])
    /\ UNCHANGED collVars
    /\ RaceFrame

\* The service handles the DELETE.
ServiceHandlesDelete ==
    /\ mutations["DELETE"].state = "sent"
    /\ server' = [server EXCEPT ![K] = Filter(@, mutations["DELETE"].id)]
    /\ mutations' = [mutations EXCEPT !["DELETE"].state = "2xx"]
    /\ last' = ChatStep("server-delete", [id |-> mutations["DELETE"].id])
    /\ UNCHANGED collVars
    /\ RaceFrame

\* The response of the PATCH arrives: mutationFn and onSuccess of updateMutation.
\* The step records whether a DELETE of the same identifier completed while the
\* PATCH was in flight.
UpdateItemSettles ==
    /\ mutations["PATCH"].state \in {"2xx", "non-2xx"}
    /\ LET m == mutations["PATCH"]
       IN  /\ cache' = [cache EXCEPT ![K] = OnResponse(@, m.state = "2xx", m.entity, FALSE)]
           /\ last' = [Step(IF m.state = "2xx" THEN "update" ELSE "request-failed",
                            [m.entity EXCEPT !.id = m.id], cache[K])
                          EXCEPT !.again = m.late]
    /\ mutations' = [mutations EXCEPT !["PATCH"] = NotCalled]
    /\ updating' = 0
    /\ UNCHANGED <<refetch, snapshot, removing, server>>
    /\ RaceFrame

\* The response of the DELETE arrives: mutationFn and onSuccess of removeMutation.
RemoveItemSettles ==
    /\ mutations["DELETE"].state = "2xx"
    /\ LET id == mutations["DELETE"].id
       IN  /\ SetQueryData(K, [id |-> id], TRUE)
           /\ last' = Step("remove", [id |-> id], cache[K])
           /\ mutations' = [mutations EXCEPT
                               !["DELETE"] = NotCalled,
                               !["PATCH"].late = @ \/ (mutations["PATCH"].state # "none"
                                                        /\ mutations["PATCH"].id = id)]
    /\ InvalidateQueries
    /\ removing' = 0
    /\ UNCHANGED <<updating, server>>
    /\ RaceFrame

NextRace ==
    \/ \E id \in Ids : CallUpdateItem(id)
    \/ \E id \in Ids : CallRemoveItem(id)
    \/ ServiceHandlesPatch
    \/ ServiceHandlesDelete
    \/ UpdateItemSettles
    \/ RemoveItemSettles
    \/ ServeRefetch
    \/ RefetchDelivers

SpecRace == InitRace /\ [][NextRace]_vars

\* C22: when the DELETE of an identifier completed while a PATCH of the same
\* identifier was in flight, the entity is absent from the cached list after the
\* PATCH completes.
C22_LateUpdateStaysAbsent ==
    last.op = "update" /\ last.again => last.id \notin IdsOf(cache[K])

----------------------------------------------------------------------------
(* The reads of the reply body *)

\* C23: the way the network splits the body into reads does not matter: a read
\* holding two `data:` lines, or one holding a part of a line, is decoded like
\* reads of one whole line each, so no reply ends in a decode error.
C23_ReadSplitRaisesNoDecodeError == ~(pc = "failed" /\ ended = "decode-error")

----------------------------------------------------------------------------
(* The composer of ChatWindow *)

\* loadingReply={loading}: the prop is the aggregate flag of the message collection.
LoadingReply == Loading

\* C24: loadingReply is true during the whole reply, from the insertion of the
\* placeholder until the stream has terminated.
C24_LoadingDuringReply == pc \in {"replying", "reading"} => LoadingReply

\* Calls of onSend the model follows at the same time.
MaxSends == 2

\* What the user can have typed.
Inputs == {<<>>, <<" ">>, <<"x">>, <<" ", "x", " ">>}

\* String.prototype.trim
RECURSIVE Trim(_)
Trim(str) ==
    IF str = <<>> THEN <<>>
    ELSE IF Head(str) = " " THEN Trim(Tail(str))
    ELSE IF str[Len(str)] = " " THEN Trim(SubSeq(str, 1, Len(str) - 1))
    ELSE str

\* disabled={!input.trim() || loadingReply}
SendDisabled == Trim(input) = <<>> \/ LoadingReply

InitComposer == Init

\* What a step of the composer leaves alone.
ComposerFrame ==
    UNCHANGED <<refetch, snapshot, updating, removing, replyStored, response, resOk,
                pageVars, replyVars, convKey, pc, flow, editId, toRemove, editPlan, trace,
                queryVars, apiVars, searchTerm, mutations, deletions>>

\* The textarea's onChange: setInput.
TypeInput(text) ==
    /\ input' = text
    /\ last' = ChatStep("input", [id |-> 0])
    /\ UNCHANGED <<cache, adding, server, nextId, now, sends>>
    /\ ComposerFrame

\* handleSend: it returns on an empty trimmed text; otherwise it calls onSend, which
\* is handleSendMessage up to `await addItem(userMsg)`, and clears the composer. The
\* step records the way it was submitted and the value loadingReply had.
HandleSend(via) ==
    /\ now < MaxSends
    /\ IF Trim(input) = <<>>
       THEN /\ last' = ChatStep("send-ignored", [id |-> 0])
            /\ UNCHANGED <<input, adding, now, sends>>
       ELSE /\ input' = <<>>
            /\ last' = [NoStep EXCEPT
                           !.op = "onSend",
                           !.item = [id |-> 0, via |-> via, text |-> Trim(input),
                                     loadingReply |-> LoadingReply]]
            /\ IF Refuses
               THEN UNCHANGED <<adding, now, sends>>
               ELSE /\ adding' = TRUE
                    /\ now' = now + 1
                    /\ sends' = sends \cup {now + 1}
    /\ UNCHANGED <<cache, server, nextId>>
    /\ ComposerFrame

\* A click on Send: the button takes it only when it is not disabled.
ClickSend ==
    /\ ~SendDisabled
    /\ HandleSend("button")

\* onKeyDown of the textarea with the Enter key: `e.key === 'Enter' && !e.shiftKey`.
PressEnter(shiftKey) ==
    /\ ~shiftKey
    /\ HandleSend("enter")

\* The POST of a user message settles: the service stored the message and
\* addMutation.onSuccess reconciles it, or the request failed. The pending flag
\* follows the mutation called last. (The handler then goes on to callReply.)
SendSettles(n, ok) ==
    /\ n \in sends
    /\ sends' = sends \ {n}
    /\ adding' = IF n = now THEN FALSE ELSE adding
    /\ LET newItem == IF ok THEN Item(nextId, "user", UserText) ELSE ErrorBody
       IN  /\ cache' = [cache EXCEPT ![K] = OnResponse(@, ok, newItem, FALSE)]
           /\ server' = IF ok THEN [server EXCEPT ![K] = Append(@, newItem)] ELSE server
           /\ nextId' = IF ok THEN nextId + 1 ELSE nextId
           /\ last' = Step(IF ok THEN "add" ELSE "request-failed", newItem, cache[K])
    /\ UNCHANGED <<input, now>>
    /\ ComposerFrame

NextComposer ==
    \/ \E text \in Inputs : TypeInput(text)
    \/ ClickSend
    \/ \E shiftKey \in BOOLEAN : PressEnter(shiftKey)
    \/ \E n \in 1 .. MaxSends, ok \in BOOLEAN : SendSettles(n, ok)

SpecComposer == InitComposer /\ [][NextComposer]_vars

\* C25: while loadingReply is true ChatWindow does not call onSend, by the button
\* or by the Enter key, so at most one send is loading at a time.
C25_NoSendWhileLoading ==
    /\ last.op = "onSend" => ~last.item.loadingReply
    /\ Cardinality(sends) <= 1

----------------------------------------------------------------------------
(* handleSendMessage: the POST of the user message and the reply request *)

\* C26: in handleSendMessage, while the POST of the user message is in flight no
\* placeholder is in the list and no reply request was issued; when the POST fails
\* the handler ends, the list is left as it was, and it stays so: no placeholder,
\* no reply request; a reply request was issued only when the POST has succeeded
\* (the service holds the message) and has settled, its onSuccess having reconciled
\* the entity.
C26_ReplyOnlyAfterUserMessage ==
    /\ flow = "send" /\ pc \in {"posting", "posted"} =>
          /\ replyPosts = 0
          /\ TmpId(now) \notin IdsOf(cache[convKey])
    /\ flow = "send" /\ last.op = "request-failed" =>
          /\ pc = "failed"
          /\ cache[convKey] = last.before
    /\ flow = "send" /\ pc = "failed" /\ ended = "" =>
          /\ replyPosts = 0
          /\ assistantTmpId = 0
          /\ TmpId(now) \notin IdsOf(cache[convKey])
    /\ flow = "send" /\ replyPosts > 0 =>
          /\ ~adding
          /\ response.id \in IdsOf(server[convKey])

C26_Witness ==
    /\ flow = "send"
    /\ last.op = "request-failed"
    /\ pc = "failed"
    /\ response.id # 0
    /\ cache[convKey] # NoList

----------------------------------------------------------------------------
(* The edit handler against a list that changes under it, checked under SpecEdit *)

InitEdit == Init

\* handleUpdateMessage from its call to the call of callReply, while the fetch of
\* the message list that is in flight may complete with any short list of the
\* service (messages of the conversation added or deleted elsewhere).
FetchedLists == {l \in ServerLists : Len(l) <= 2}

NextEdit ==
    \/ \E id \in Ids : HandleUpdateMessage(id)
    \/ ServerHandlesPatch
    \/ PatchSucceeds
    \/ ServerHandlesDelete
    \/ DeleteSucceeds
    \/ RequestFails
    \/ \E list \in FetchedLists : RefetchCompletes(list)

SpecEdit == InitEdit /\ [][NextEdit]_vars

\* The 1-based places of an identifier in a list.
PlacesOf(list, id) == {i \in DOMAIN list : getId(list[i]) = id}

\* C27: handleUpdateMessage never issues a DELETE for the edited message or for a
\* message placed before it, whatever list the cache holds when the PATCH completes:
\* the deletions planned then are of messages placed after the edited one in that
\* list, there are none when the edited identifier was not in it (onSuccess has
\* appended the entity at the end before the handler reads the list), and every
\* DELETE issued afterwards is one of those.
C27_DeletesOnlyWhatFollows ==
    /\ flow = "edit" /\ last.op = "update" =>
          /\ editId \notin {toRemove[i] : i \in DOMAIN toRemove}
          /\ \A i \in DOMAIN toRemove :
                \A p \in PlacesOf(last.before, toRemove[i]) :
                   \E q \in PlacesOf(last.before, editId) : q < p
          /\ ~last.hit => toRemove = <<>>
          /\ last.hit => \A i \in DOMAIN toRemove : PlacesOf(last.before, toRemove[i]) # {}
    /\ flow = "edit" /\ pc \in {"deleting", "deleted"} =>
          /\ removing # editId
          /\ Head(toRemove) # editId
          /\ Head(toRemove) \notin {editPlan.upTo[i] : i \in DOMAIN editPlan.upTo}
    /\ flow = "edit" /\ last.op \in {"server-delete", "remove"} =>
          /\ last.id # editId
          /\ last.id \in {editPlan.after[i] : i \in DOMAIN editPlan.after}

\* The edited identifier was not in the non-empty cached list when the PATCH completed.
C27_Witness ==
    /\ flow = "edit"
    /\ last.op = "update"
    /\ ~last.hit
    /\ Len(last.before) >= 2
    /\ last.id = editId
    /\ pc = "callReply"

----------------------------------------------------------------------------
(* Conversation deletions in flight, checked under SpecDelete *)

InitDelete == InitPage

\* What a deletion step leaves alone: the messages, the handlers, the reply.
DeleteFrame ==
    /\ UNCHANGED <<refetch, snapshot, adding, updating, removing, serverVars, replyVars,
                   handlerVars, selectedModel>>
    /\ UNCHANGED <<queryVars, apiVars, searchTerm, mutations, composerVars>>

\* currentConversation: conversations.find((c) => c.id === currentConversationId)
CurrentConversationFound == currentConversationId \in IdsOf(cache[ConversationsKey])

\* The auto-select effect has something to do: it runs right after the render, before
\* the user can act on the page.
AutoSelectPending == currentConversationId = Null /\ cache[ConversationsKey] # <<>>

\* A handler calls removeConversation(id) and awaits it. What it does afterwards it
\* does with the values of the render it was created in: `conversations` and
\* `currentConversationId` are those of the moment of the call. One DELETE is in
\* flight per conversation.
CallRemoveConversation(id, via) ==
    /\ ~AutoSelectPending
    /\ id \in IdsOf(cache[ConversationsKey])
    /\ id \notin {d.id : d \in deletions}
    /\ deletions' = deletions \cup
                      {[id |-> id, via |-> via, conversations |-> cache[ConversationsKey],
                        currentConversationId |-> currentConversationId]}
    /\ last' = ChatStep("removeConversation", [id |-> id])
    /\ UNCHANGED <<cache, currentConversationId>>
    /\ DeleteFrame

\* handleDeleteCurrent up to `await removeConversation(currentConversation.id)`.
HandleDeleteCurrent ==
    /\ CurrentConversationFound
    /\ CallRemoveConversation(currentConversationId, "header")

\* Sidebar.onDeleteConversation(id) up to `await removeConversation(id)`.
OnDeleteConversation(id) == CallRemoveConversation(id, "sidebar") /\ id \in Convs

\* The selection a handler sets after its await: the header always does, the sidebar
\* when the conversation deleted was the selected one of its render; both pick the
\* first of their render's conversations that is not the deleted one.
SelectionAfter(d) ==
    LET remaining == Filter(d.conversations, d.id)
    IN  IF d.via = "header" \/ d.currentConversationId = d.id
        THEN IF remaining = <<>> THEN Null ELSE getId(remaining[1])
        ELSE currentConversationId

\* The DELETE succeeds: removeMutation.onSuccess takes the conversation out of the
\* cached list, and the handler that awaited it goes on.
RemoveConversationSucceeds(d) ==
    /\ d \in deletions
    /\ deletions' = deletions \ {d}
    /\ ConversationUpdate([id |-> d.id], TRUE)
    /\ currentConversationId' = SelectionAfter(d)
    /\ last' = Step("conversation-removed", [id |-> d.id], cache[ConversationsKey])
    /\ DeleteFrame

\* The DELETE fails: mutateAsync rejects and the handler ends at its await.
RemoveConversationFails(d) ==
    /\ d \in deletions
    /\ deletions' = deletions \ {d}
    /\ last' = ChatStep("conversation-kept", [id |-> d.id])
    /\ UNCHANGED <<cache, currentConversationId>>
    /\ DeleteFrame

NextDelete ==
    \/ ModelsLoad
    \/ AutoSelect
    \/ \E id \in Convs : SelectConversation(id)
    \/ HandleDeleteCurrent
    \/ \E id \in Convs : OnDeleteConversation(id)
    \/ \E d \in deletions : RemoveConversationSucceeds(d)
    \/ \E d \in deletions : RemoveConversationFails(d)

SpecDelete == InitDelete /\ [][NextDelete]_vars

\* C28 (as claimed): once every conversation deletion that was started has completed,
\* the selected conversation is null or one of the cached conversation list.
C28_SelectionIsNullOrPresent ==
    deletions = {} =>
       \/ currentConversationId = Null
       \/ currentConversationId \in IdsOf(cache[ConversationsKey])

----------------------------------------------------------------------------
(* The title the sidebar displays, checked under SpecSidebar *)

\* The text displayed for a conversation without a title.
UntitledConversation ==
    <<"U", "n", "t", "i", "t", "l", "e", "d", " ",
      "C", "o", "n", "v", "e", "r", "s", "a", "t", "i", "o", "n">>

\* Sidebar: `const title = conv.title || 'Untitled Conversation'`
DisplayedTitle(conv) ==
    IF conv.title = NoTitle \/ conv.title = <<>> THEN UntitledConversation ELSE conv.title

\* C29 (as claimed): a cached conversation is in the list shown if and only if the
\* search term occurs, letter case ignored, in the title the sidebar displays for
\* it, the fallback title included.
C29_ShownIffDisplayedTitleMatches ==
    \A i \in DOMAIN cache[ConversationsKey] :
       LET conv == cache[ConversationsKey][i]
       IN  (\E j \in DOMAIN FilteredConversations : FilteredConversations[j] = conv)
              <=> Includes(ToLowerCase(DisplayedTitle(conv)), ToLowerCase(searchTerm))

====
